---------------------------- MODULE Spec2Model ----------------------------
(***************************************************************************)
(* Model of the speech-to-email processing pipeline: the upload (ingestion)*)
(* handler, the transcription-completion handler, the article-enhancement  *)
(* handler and the email (delivery) handler, all mutating one DynamoDB     *)
(* item per record id.  Every store call and every external call is one    *)
(* atomic step; handler invocations interleave freely.                     *)
(*                                                                         *)
(* Strings that the code parses (object keys, job names) are sequences of  *)
(* one-character strings.  The attribute updatedAt is omitted: every write *)
(* sets it to the wall clock and no handler reads it.  Other timestamps    *)
(* are modelled by whether they are set.                                   *)
(***************************************************************************)
EXTENDS Integers, Sequences, FiniteSets, TLC

VARIABLES
  store,            \* the DynamoDB table: record id -> item
  jobs,             \* the transcription jobs started so far
  s3Events,         \* the object-created notifications the bucket raises
  ing,              \* invocations of the upload handler
  chain,            \* invocations of the transcription handler and of the
                    \* handlers it invokes synchronously
  storeFaultsLeft,  \* how many store calls may still throw
  ingested,         \* deliveries of object-created events so far
  deliveries,       \* deliveries of job-state-change events so far
  putCount,         \* record id -> successful conditional inserts
  startCount,       \* record id -> calls of StartTranscriptionJob
  response,         \* the last response of the status handler
  jobRef,           \* a job name built by the upload handler and what the
                    \* transcription handler recovers from it
  poller            \* the status poller of the client

vars == <<store, jobs, s3Events, ing, chain, storeFaultsLeft, ingested, deliveries,
          putCount, startCount, response, jobRef, poller>>

(***************************************************************************)
(* Bounds of the model.                                                    *)
(***************************************************************************)
MaxIngestEvents == 2   \* deliveries of object-created events
MaxDeliveries == 2     \* deliveries of job-state-change events
MaxStoreFaults == 1    \* store calls that throw
MaxIdLen == 3          \* characters of a record id in a job name
MaxPolls == 6          \* ticks of the client's polling timer
MaxInFlight == 2       \* status requests of the client not yet answered

(***************************************************************************)
(* String helpers (String.prototype.split / Array.prototype.join).         *)
(***************************************************************************)
RECURSIVE Split(_, _)
Split(s, sep) ==
  IF \A i \in 1..Len(s) : s[i] # sep
  THEN <<s>>
  ELSE LET i == CHOOSE k \in 1..Len(s) :
                  s[k] = sep /\ \A j \in 1..(k - 1) : s[j] # sep
       IN  <<SubSeq(s, 1, i - 1)>> \o Split(SubSeq(s, i + 1, Len(s)), sep)

RECURSIVE Join(_, _)
Join(parts, sep) ==
  IF Len(parts) = 0 THEN <<>>
  ELSE IF Len(parts) = 1 THEN parts[1]
  ELSE parts[1] \o <<sep>> \o Join(Tail(parts), sep)

\* record.s3.object.key.replace(/\+/g, ' ') ; the keys of the model carry no
\* percent escapes, so decodeURIComponent leaves the rest unchanged.
DecodeKey(raw) == [i \in 1..Len(raw) |-> IF raw[i] = "+" THEN " " ELSE raw[i]]

\* keyParts = objectKey.split('/'); fileName = last; recordId = fileName.split('.')[0]
RecordIdOf(objectKey) ==
  LET keyParts == Split(objectKey, "/")
      fileName == keyParts[Len(keyParts)]
  IN  Split(fileName, ".")[1]

JobPrefix == <<"s","p","e","e","c","h","-","t","o","-","e","m","a","i","l","-">>
Digits == <<"1","2","3","4","5","6","7","8","9">>

\* `speech-to-email-${recordId}-${Date.now()}`
TranscribeJobName(recordId, ts) == JobPrefix \o recordId \o <<"-">> \o <<Digits[ts]>>

\* jobNameParts = TranscriptionJobName.split('-')
JobNameParts(jobName) == Split(jobName, "-")

\* jobNameParts.slice(3, -1).join('-')
\* a parser that takes the fourth part only
JobRecordId_FourthPart(jobName) == JobNameParts(jobName)[4]

JobRecordId(jobName) ==
  LET parts == JobNameParts(jobName)
  IN  Join(SubSeq(parts, 4, Len(parts) - 1), "-")

(***************************************************************************)
(* Object keys, events and record ids of the model.                        *)
(***************************************************************************)

KeyA == <<"a","/","r",".","m">>
KeyB == <<"b","/","r",".","w">>
KeyS == <<"a","/","s",".","m">>

Keys == {KeyA, KeyB, KeyS}

\* object-created notifications: one record each, or several records in one
Events == { <<KeyA>>, <<KeyB>>, <<KeyS>>, <<KeyA, KeyS>>, <<KeyS, KeyA>>, <<KeyA, KeyB>> }

Ids == { RecordIdOf(DecodeKey(k)) : k \in Keys }

IngSlots == DOMAIN ing
ChainSlots == DOMAIN chain

\* retryAttempts: 2 on the asynchronously invoked functions
RetryAttempts == 2

(***************************************************************************)
(* The tracking store: one item per record id.                             *)
(***************************************************************************)
NoText == "none"

AbsentItem ==
  [ exists |-> FALSE, status |-> "none", audioFileKey |-> <<>>,
    createdAt |-> FALSE, transcribeJobName |-> <<>>,
    transcriptionText |-> NoText, enhancedArticleText |-> NoText,
    errorMessage |-> NoText, retryCount |-> 0, emailSentAt |-> FALSE ]

\* UpdateItemCommand with a SET expression: writes the named attributes and
\* creates the item when the key is absent (no ConditionExpression is given).
UpdateItem(item, upd) ==
  [ f \in DOMAIN item |->
      IF f \in DOMAIN upd THEN upd[f]
      ELSE IF f = "exists" THEN TRUE
      ELSE item[f] ]

\* PutItemCommand with ConditionExpression 'attribute_not_exists(PK)'
PutSucceeds_Unconditional(item) == TRUE

PutSucceeds(item) == ~item.exists

\* dynamoRecord of the upload handler
NewItem(objectKey) ==
  [ AbsentItem EXCEPT !.exists = TRUE, !.status = "uploaded",
                      !.audioFileKey = objectKey, !.createdAt = TRUE,
                      !.retryCount = 0 ]

\* outcomes of one call to the store: it is accepted, or (while the store may
\* still fail) it throws
StoreOutcomes == IF storeFaultsLeft > 0 THEN {TRUE, FALSE} ELSE {TRUE}

UseFault(ok) == storeFaultsLeft' = IF ok THEN storeFaultsLeft ELSE storeFaultsLeft - 1

(***************************************************************************)
(* Upload (ingestion) handler.                                             *)
(***************************************************************************)
IdleIng == [ pc |-> "idle", event |-> <<>>, i |-> 0, attempt |-> 0,
             error |-> NoText, found |-> {}, job |-> <<>> ]

ObjectKeyAt(p, i) == DecodeKey(ing[p].event[i])
CurKey(p) == ObjectKeyAt(p, ing[p].i)
CurId(p) == RecordIdOf(CurKey(p))

\* `continue` / end of one loop iteration
IngAdvance(r) ==
  IF r.i + 1 > Len(r.event)
  THEN [r EXCEPT !.pc = "done", !.i = r.i + 1, !.job = <<>>]
  ELSE [r EXCEPT !.pc = "get", !.i = r.i + 1, !.job = <<>>]

\* an exception reaching the outer catch block
IngThrow(r, msg) == [r EXCEPT !.pc = "catch", !.i = 1, !.error = msg, !.job = <<>>]

\* the host delivers an object-created event
IngInvoke(p) ==
  /\ ing[p].pc \in {"idle", "done", "thrown"}
  /\ ingested < MaxIngestEvents
  /\ ingested' = ingested + 1
  /\ \E e \in s3Events :
       ing' = [ing EXCEPT ![p] = [IdleIng EXCEPT !.pc = "get", !.event = e,
                                                 !.i = 1, !.attempt = 1]]
  /\ UNCHANGED <<store, jobs, s3Events, chain, storeFaultsLeft, deliveries, putCount, startCount, response, jobRef, poller>>

\* lines 29-54: derive the record id, point read, skip when present
IngGet(p) ==
  /\ ing[p].pc = "get"
  /\ IF CurId(p) = <<>>
     THEN /\ ing' = [ing EXCEPT ![p] = IngAdvance(@)]
          /\ UNCHANGED storeFaultsLeft
     ELSE \E ok \in StoreOutcomes :
            /\ UseFault(ok)
            /\ ing' = [ing EXCEPT ![p] =
                 IF ~ok THEN IngThrow(@, "StoreError")
                 ELSE IF store[CurId(p)].exists
                      THEN IngAdvance([@ EXCEPT !.found = @ \cup {CurId(p)}])
                      ELSE [@ EXCEPT !.pc = "put"]]
  /\ UNCHANGED <<store, jobs, s3Events, chain, ingested, deliveries, putCount, startCount, response, jobRef, poller>>

\* lines 56-91: conditional insert; ConditionalCheckFailedException => continue
IngPut(p) ==
  /\ ing[p].pc = "put"
  /\ \E ok \in StoreOutcomes :
       /\ UseFault(ok)
       /\ IF ~ok
          THEN /\ ing' = [ing EXCEPT ![p] = IngThrow(@, "StoreError")]
               /\ UNCHANGED <<store, putCount>>
          ELSE IF PutSucceeds(store[CurId(p)])
               THEN /\ store' = [store EXCEPT ![CurId(p)] = NewItem(CurKey(p))]
                    /\ putCount' = [putCount EXCEPT ![CurId(p)] = @ + 1]
                    /\ ing' = [ing EXCEPT ![p].pc = "start"]
               ELSE /\ ing' = [ing EXCEPT ![p] =
                                 IngAdvance([@ EXCEPT !.found = @ \cup {CurId(p)}])]
                    /\ UNCHANGED <<store, putCount>>
  /\ UNCHANGED <<jobs, s3Events, chain, ingested, deliveries, startCount, response, jobRef, poller>>

\* an output key that is the same for every record
ArtifactKey_NotById(recordId) ==
  <<"t","r","a","n","s","c","r","i","p","t","i","o","n","s","/">> \o <<"s">>
    \o <<".","j","s","o","n">>

\* line 104: OutputKey: `transcriptions/${recordId}.json`
ArtifactKey(recordId) ==
  <<"t","r","a","n","s","c","r","i","p","t","i","o","n","s","/">> \o recordId
    \o <<".","j","s","o","n">>

\* lines 93-113: StartTranscriptionJob
IngStartJob(p) ==
  /\ ing[p].pc = "start"
  /\ startCount' = [startCount EXCEPT ![CurId(p)] = @ + 1]
  /\ \/ /\ LET name == TranscribeJobName(CurId(p), Cardinality(jobs) + 1)
           IN  /\ jobs' = jobs \cup {[name |-> name, status |-> "IN_PROGRESS",
                                      artifact |-> "none",
                                      outputKey |-> ArtifactKey(CurId(p))]}
               /\ ing' = [ing EXCEPT ![p] = [@ EXCEPT !.pc = "update", !.job = name]]
     \/ /\ ing' = [ing EXCEPT ![p] = IngThrow(@, "StartJobError")]
        /\ UNCHANGED jobs
  /\ UNCHANGED <<store, s3Events, chain, storeFaultsLeft, ingested, deliveries, putCount, response, jobRef, poller>>

TranscribingUpdate(jobName) ==
  [ status |-> "transcribing", transcribeJobName |-> jobName ]

\* lines 115-134: status = transcribing, job name
IngUpdate(p) ==
  /\ ing[p].pc = "update"
  /\ \E ok \in StoreOutcomes :
       /\ UseFault(ok)
       /\ IF ok
          THEN /\ store' = [store EXCEPT ![CurId(p)] =
                              UpdateItem(@, TranscribingUpdate(ing[p].job))]
               /\ ing' = [ing EXCEPT ![p] = IngAdvance(@)]
          ELSE /\ ing' = [ing EXCEPT ![p] = IngThrow(@, "StoreError")]
               /\ UNCHANGED store
  /\ UNCHANGED <<jobs, s3Events, chain, ingested, deliveries, putCount, startCount, response, jobRef, poller>>


IngFailedUpdate_KeepsStatus(msg) == [ errorMessage |-> msg ]

\* lines 154-169
IngFailedUpdate(msg) == [ status |-> "failed", errorMessage |-> msg ]

\* lines 142-176: the catch block marks every record of the event failed;
\* an error of one of these updates is logged and swallowed
IngCatch(p) ==
  /\ ing[p].pc = "catch"
  /\ \E ok \in StoreOutcomes :
       /\ UseFault(ok)
       /\ store' = IF ok /\ CurId(p) # <<>>
                   THEN [store EXCEPT ![CurId(p)] =
                           UpdateItem(@, IngFailedUpdate(ing[p].error))]
                   ELSE store
       /\ ing' = [ing EXCEPT ![p] =
                    IF ing[p].i + 1 > Len(ing[p].event)
                    THEN [@ EXCEPT !.pc = "thrown", !.i = ing[p].i + 1]
                    ELSE [@ EXCEPT !.i = ing[p].i + 1]]
  /\ UNCHANGED <<jobs, s3Events, chain, ingested, deliveries, putCount, startCount, response, jobRef, poller>>

\* line 178 rethrows; the host re-invokes the handler for the same event
IngReinvoke(p) ==
  /\ ing[p].pc = "thrown"
  /\ ing[p].attempt <= RetryAttempts
  /\ ing' = [ing EXCEPT ![p] = [IdleIng EXCEPT !.pc = "get", !.event = ing[p].event,
                                              !.i = 1, !.attempt = ing[p].attempt + 1]]
  /\ UNCHANGED <<store, jobs, s3Events, chain, storeFaultsLeft, ingested, deliveries, putCount, startCount, response, jobRef, poller>>

(***************************************************************************)
(* The transcription service: a started job finishes COMPLETED, leaving an *)
(* artifact, or FAILED; either raises a job-state-change event.  The       *)
(* artifact is written to the job's output key in the bucket of the audio  *)
(* objects, whose object-created notification has no filter: the write     *)
(* raises an object-created event for the upload handler.                  *)
(***************************************************************************)
Artifacts == {"ok", "noTranscripts", "malformed", "noUri"}

TranscriptOf(jobName) == "hello world"

JobFinish ==
  /\ \E j \in jobs :
       /\ j.status = "IN_PROGRESS"
       /\ \/ /\ \E a \in Artifacts :
                  jobs' = (jobs \ {j}) \cup {[j EXCEPT !.status = "COMPLETED", !.artifact = a]}
             /\ s3Events' = s3Events \cup { <<j.outputKey>> }
          \/ /\ jobs' = (jobs \ {j}) \cup {[j EXCEPT !.status = "FAILED"]}
             /\ UNCHANGED s3Events
  /\ UNCHANGED <<store, ing, chain, storeFaultsLeft, ingested, deliveries, putCount, startCount, response, jobRef, poller>>

(***************************************************************************)
(* Transcription handler, article-enhancement handler and email handler.   *)
(* The three run as one synchronous call chain (InvocationType             *)
(* RequestResponse), so one chain slot carries the locals of all three.    *)
(***************************************************************************)
\* const maxRetries = 3 (article-enhancement handler and email handler)
EmailMaxRetries == 3

IdleChain ==
  [ pc |-> "idle", job |-> <<>>, attempt |-> 0, recordId |-> <<>>,
    transcriptionText |-> NoText, audioFileKey |-> <<>>,
    enhRetryCount |-> 0, article |-> NoText, fallback |-> FALSE,
    content |-> NoText, emailRetryCount |-> 0, sends |-> 0,
    error |-> NoText, log |-> <<>>, result |-> "none",
    calls |-> 0, succeeded |-> FALSE, waits |-> <<>>, emailWaits |-> <<>>,
    retrieveFailed |-> FALSE ]

\* the status values this chain has written, repetitions of the last one dropped
Logged(r, status) ==
  IF Len(r.log) > 0 /\ r.log[Len(r.log)] = status THEN r
  ELSE [r EXCEPT !.log = Append(r.log, status)]

\* an exception reaching the catch block of the transcription handler
TrThrow(r, msg) == [r EXCEPT !.pc = "tCatch", !.error = msg]

\* a handler of the chain returned or threw into its synchronous invoker,
\* which logs the invocation result and returns 200
ChainReturn(r, result) ==
  [IdleChain EXCEPT !.pc = "done", !.result = result, !.job = r.job,
                    !.recordId = r.recordId, !.log = r.log]

JobOf(name) == CHOOSE j \in jobs : j.name = name

\* lines 31-46: the handler starts on a job-state-change event
TrBegin(r, jobName) ==
  LET r1 == [r EXCEPT !.job = jobName, !.recordId = JobRecordId(jobName)]
  IN  IF Len(JobNameParts(jobName)) < 4
      THEN ChainReturn([r1 EXCEPT !.recordId = <<>>], "invalidJobName")
      ELSE IF JobOf(jobName).status = "FAILED"
           THEN [r1 EXCEPT !.pc = "tFailUpdate"]
           ELSE [r1 EXCEPT !.pc = "tRetrieve"]

TrInvoke(c) ==
  /\ chain[c].pc \in {"idle", "done", "thrown"}
  /\ deliveries < MaxDeliveries
  /\ deliveries' = deliveries + 1
  /\ \E j \in jobs :
       /\ j.status # "IN_PROGRESS"
       /\ chain' = [chain EXCEPT ![c] = TrBegin([IdleChain EXCEPT !.attempt = 1], j.name)]
  /\ UNCHANGED <<store, jobs, s3Events, ing, storeFaultsLeft, ingested, putCount, startCount, response, jobRef, poller>>

JobFailedUpdate_WithTranscript ==
  [ status |-> "failed", errorMessage |-> "Transcription job failed",
    transcriptionText |-> "No transcription available" ]

\* lines 48-63
JobFailedUpdate == [ status |-> "failed", errorMessage |-> "Transcription job failed" ]

\* lines 46-68: outcome FAILED
TrFailUpdate(c) ==
  /\ chain[c].pc = "tFailUpdate"
  /\ \E ok \in StoreOutcomes :
       /\ UseFault(ok)
       /\ IF ok
          THEN /\ store' = [store EXCEPT ![chain[c].recordId] = UpdateItem(@, JobFailedUpdate)]
               /\ chain' = [chain EXCEPT ![c] = ChainReturn(Logged(@, "failed"), "jobFailed")]
          ELSE /\ chain' = [chain EXCEPT ![c] = TrThrow(@, "StoreError")]
               /\ UNCHANGED store
  /\ UNCHANGED <<jobs, s3Events, ing, ingested, deliveries, putCount, startCount, response, jobRef, poller>>

\* an error of transcribeClient.send(getJobCommand) or of
\* s3Client.send(getObjectCommand) that a later call would not meet again
RetrieveErrors == {"ServiceUnavailable"}

\* lines 70-116: GetTranscriptionJob, parse the URI, GetObject, JSON.parse,
\* results?.transcripts?.[0]?.transcript || 'No transcription available'
TrRetrieve(c) ==
  /\ chain[c].pc = "tRetrieve"
  /\ LET a == JobOf(chain[c].job).artifact
     IN  \/ /\ a = "ok"
            /\ chain' = [chain EXCEPT ![c] = [@ EXCEPT !.pc = "tGetItem",
                           !.transcriptionText = TranscriptOf(chain[c].job)]]
         \/ /\ a = "noTranscripts"
            /\ chain' = [chain EXCEPT ![c] = [@ EXCEPT !.pc = "tGetItem",
                           !.transcriptionText = "No transcription available"]]
         \/ /\ a = "malformed"
            /\ chain' = [chain EXCEPT ![c] =
                 TrThrow([@ EXCEPT !.retrieveFailed = TRUE], "Unexpected token in JSON")]
         \/ /\ a = "noUri"
            /\ chain' = [chain EXCEPT ![c] =
                 TrThrow([@ EXCEPT !.retrieveFailed = TRUE],
                         "No transcript file URI found in job result")]
         \/ \E e \in RetrieveErrors :
              chain' = [chain EXCEPT ![c] = TrThrow([@ EXCEPT !.retrieveFailed = TRUE], e)]
  /\ UNCHANGED <<store, jobs, s3Events, ing, storeFaultsLeft, ingested, deliveries, putCount, startCount, response, jobRef, poller>>

\* lines 118-129: read the record for the payload's metadata
TrGetItem(c) ==
  /\ chain[c].pc = "tGetItem"
  /\ \E ok \in StoreOutcomes :
       /\ UseFault(ok)
       /\ chain' = [chain EXCEPT ![c] =
            IF ok THEN [@ EXCEPT !.pc = "tUpdate",
                                 !.audioFileKey = store[chain[c].recordId].audioFileKey]
            ELSE TrThrow(@, "StoreError")]
  /\ UNCHANGED <<store, jobs, s3Events, ing, ingested, deliveries, putCount, startCount, response, jobRef, poller>>

TranscribedUpdate(text) ==
  [ status |-> "transcription_completed", transcriptionText |-> text ]

\* lines 131-150
TrUpdate(c) ==
  /\ chain[c].pc = "tUpdate"
  /\ \E ok \in StoreOutcomes :
       /\ UseFault(ok)
       /\ IF ok
          THEN /\ store' = [store EXCEPT ![chain[c].recordId] =
                              UpdateItem(@, TranscribedUpdate(chain[c].transcriptionText))]
               /\ chain' = [chain EXCEPT ![c] =
                              Logged([@ EXCEPT !.pc = "tInvoke"], "transcription_completed")]
          ELSE /\ chain' = [chain EXCEPT ![c] = TrThrow(@, "StoreError")]
               /\ UNCHANGED store
  /\ UNCHANGED <<jobs, s3Events, ing, ingested, deliveries, putCount, startCount, response, jobRef, poller>>

\* errors of lambdaClient.send(InvokeCommand) when the invocation is not issued
InvokeErrors == {"TooManyRequestsException", "ResourceNotFoundException"}
\* article-enhancement handler, line 100
EnhMaxRetries == 3

\* article-enhancement handler, line 103 and lines 336-340: the test of the
\* retry loop; when it fails the handler leaves the loop and returns its last
\* statement's response
EnhLoop(r) ==
  IF r.enhRetryCount < EnhMaxRetries
  THEN [r EXCEPT !.pc = "eStatus"]
  ELSE ChainReturn(r, "enhancementUnexpected")

\* lines 152-174: invoke the article-enhancement handler
TrInvokeEnhancement(c) ==
  /\ chain[c].pc = "tInvoke"
  /\ \/ chain' = [chain EXCEPT ![c] = EnhLoop([@ EXCEPT !.enhRetryCount = 0])]
     \/ \E e \in InvokeErrors : chain' = [chain EXCEPT ![c] = TrThrow(@, e)]
  /\ UNCHANGED <<store, jobs, s3Events, ing, storeFaultsLeft, ingested, deliveries, putCount, startCount, response, jobRef, poller>>

TrCatchUpdate(msg) == [ status |-> "failed", errorMessage |-> msg ]

\* lines 181-215: mark the record failed (an error of the update is swallowed)
\* and rethrow
TrCatch(c) ==
  /\ chain[c].pc = "tCatch"
  /\ \E ok \in StoreOutcomes :
       /\ UseFault(ok)
       /\ store' = IF ok
                   THEN [store EXCEPT ![chain[c].recordId] =
                           UpdateItem(@, TrCatchUpdate(chain[c].error))]
                   ELSE store
       /\ chain' = [chain EXCEPT ![c] =
                      IF ok THEN Logged([@ EXCEPT !.pc = "thrown"], "failed")
                      ELSE [@ EXCEPT !.pc = "thrown"]]
  /\ UNCHANGED <<jobs, s3Events, ing, ingested, deliveries, putCount, startCount, response, jobRef, poller>>

\* the host re-invokes the handler for the same event
TrReinvoke(c) ==
  /\ chain[c].pc = "thrown"
  /\ chain[c].attempt <= RetryAttempts
  /\ chain' = [chain EXCEPT ![c] =
                 TrBegin([IdleChain EXCEPT !.attempt = chain[c].attempt + 1,
                                           !.retrieveFailed = chain[c].retrieveFailed],
                         chain[c].job)]
  /\ UNCHANGED <<store, jobs, s3Events, ing, storeFaultsLeft, ingested, deliveries, putCount, startCount, response, jobRef, poller>>

(***************************************************************************)
(* Article-enhancement handler.                                            *)
(***************************************************************************)
\* the texts the model may return for one prompt
Articles == {"<h1>Hello</h1>", "<h1>Hallo</h1>"}

BedrockErrors == {"ThrottlingException", "AccessDeniedException",
                  "No content in Bedrock response"}

IsRetryableError_Always(msg) == TRUE

\* lines 237-243
IsRetryableError(msg) ==
  msg \in {"ThrottlingException", "ServiceUnavailableException",
           "InternalServerException", "TooManyRequestsException"}

\* lines 330 and 255 (email handler): Math.pow(2, retryCount) * 1000 ms
WaitTime(retryCount) == (2 ^ retryCount) * 1000

\* a catch block that gives up one failure later
EnhCatch_GivesUpLate(r, msg) ==
  LET n == r.enhRetryCount + 1
  IN  IF n > EnhMaxRetries \/ ~IsRetryableError(msg)
      THEN [r EXCEPT !.pc = "eFallback", !.enhRetryCount = n, !.error = msg,
                     !.article = NoText]
      ELSE EnhLoop([r EXCEPT !.enhRetryCount = n, !.error = msg,
                             !.article = NoText, !.waits = Append(@, WaitTime(n))])

\* lines 233-247 and 329-333: count the failure, then fall back, or wait and
\* go back to the test of the loop
EnhCatch(r, msg) ==
  LET n == r.enhRetryCount + 1
  IN  IF n >= EnhMaxRetries \/ ~IsRetryableError(msg)
      THEN [r EXCEPT !.pc = "eFallback", !.enhRetryCount = n, !.error = msg,
                     !.article = NoText]
      ELSE EnhLoop([r EXCEPT !.enhRetryCount = n, !.error = msg,
                             !.article = NoText, !.waits = Append(@, WaitTime(n))])

EnhancingUpdate == [ status |-> "enhancing_article" ]

\* lines 103-123; the error caught by the previous iteration is out of scope
EnhStatus(c) ==
  /\ chain[c].pc = "eStatus"
  /\ \E ok \in StoreOutcomes :
       /\ UseFault(ok)
       /\ IF ok
          THEN /\ store' = [store EXCEPT ![chain[c].recordId] = UpdateItem(@, EnhancingUpdate)]
               /\ chain' = [chain EXCEPT ![c] =
                              Logged([@ EXCEPT !.pc = "eBedrock", !.error = NoText],
                                     "enhancing_article")]
          ELSE /\ chain' = [chain EXCEPT ![c] = EnhCatch(@, "StoreError")]
               /\ UNCHANGED store
  /\ UNCHANGED <<jobs, s3Events, ing, ingested, deliveries, putCount, startCount, response, jobRef, poller>>

\* lines 125-170: InvokeModel and the checks of its response
EnhBedrock(c) ==
  /\ chain[c].pc = "eBedrock"
  /\ \/ \E text \in Articles :
          chain' = [chain EXCEPT ![c] = [@ EXCEPT !.pc = "eUpdate", !.article = text,
                                                   !.calls = @ + 1, !.succeeded = TRUE]]
     \/ \E e \in BedrockErrors :
          chain' = [chain EXCEPT ![c] = EnhCatch([@ EXCEPT !.calls = @ + 1], e)]
  /\ UNCHANGED <<store, jobs, s3Events, ing, storeFaultsLeft, ingested, deliveries, putCount, startCount, response, jobRef, poller>>

EnhancedUpdate_StatusOnly(text) == [ status |-> "article_enhanced" ]

EnhancedUpdate(text) == [ status |-> "article_enhanced", enhancedArticleText |-> text ]

\* lines 172-193
EnhUpdate(c) ==
  /\ chain[c].pc = "eUpdate"
  /\ \E ok \in StoreOutcomes :
       /\ UseFault(ok)
       /\ IF ok
          THEN /\ store' = [store EXCEPT ![chain[c].recordId] =
                              UpdateItem(@, EnhancedUpdate(chain[c].article))]
               /\ chain' = [chain EXCEPT ![c] =
                              Logged([@ EXCEPT !.pc = "eInvoke"], "article_enhanced")]
          ELSE /\ chain' = [chain EXCEPT ![c] = EnhCatch(@, "StoreError")]
               /\ UNCHANGED store
  /\ UNCHANGED <<jobs, s3Events, ing, ingested, deliveries, putCount, startCount, response, jobRef, poller>>

\* email handler, line 46 and lines 260-264: the test of the retry loop; when
\* it fails the handler leaves the loop and returns its last statement's
\* response
EmailLoop(r) ==
  IF r.emailRetryCount < EmailMaxRetries
  THEN [r EXCEPT !.pc = "mSend"]
  ELSE ChainReturn(r, "deliveryUnexpected")

\* the email handler starts on the payload: enhancedArticleText = content
EmailBegin(r, content) ==
  EmailLoop([r EXCEPT !.content = content, !.emailRetryCount = 0, !.sends = 0])

\* lines 195-231: invoke the email handler with the enhanced article
EnhInvokeEmail(c) ==
  /\ chain[c].pc = "eInvoke"
  /\ \/ chain' = [chain EXCEPT ![c] = EmailBegin(@, chain[c].article)]
     \/ \E e \in InvokeErrors : chain' = [chain EXCEPT ![c] = EnhCatch(@, e)]
  /\ UNCHANGED <<store, jobs, s3Events, ing, storeFaultsLeft, ingested, deliveries, putCount, startCount, response, jobRef, poller>>

FallbackUpdate(msg, n) ==
  [ status |-> "article_enhanced",
    errorMessage |-> "Bedrock enhancement failed, using original transcription: " \o msg,
    retryCount |-> n ]

\* lines 249-269: the fallback's status update
EnhFallbackUpdate(c) ==
  /\ chain[c].pc = "eFallback"
  /\ \E ok \in StoreOutcomes :
       /\ UseFault(ok)
       /\ IF ok
          THEN /\ store' = [store EXCEPT ![chain[c].recordId] =
                    UpdateItem(@, FallbackUpdate(chain[c].error, chain[c].enhRetryCount))]
               /\ chain' = [chain EXCEPT ![c] =
                    Logged([@ EXCEPT !.pc = "eFallbackInvoke", !.fallback = TRUE],
                           "article_enhanced")]
          ELSE /\ chain' = [chain EXCEPT ![c] =
                    [@ EXCEPT !.pc = "eFailed", !.error = "StoreError"]]
               /\ UNCHANGED store
  /\ UNCHANGED <<jobs, s3Events, ing, ingested, deliveries, putCount, startCount, response, jobRef, poller>>

\* lines 271-300: invoke the email handler with the transcript
EnhFallbackInvoke(c) ==
  /\ chain[c].pc = "eFallbackInvoke"
  /\ \/ chain' = [chain EXCEPT ![c] = EmailBegin(@, chain[c].transcriptionText)]
     \/ \E e \in InvokeErrors :
          chain' = [chain EXCEPT ![c] = [@ EXCEPT !.pc = "eFailed", !.error = e]]
  /\ UNCHANGED <<store, jobs, s3Events, ing, storeFaultsLeft, ingested, deliveries, putCount, startCount, response, jobRef, poller>>

EnhFailedUpdate_KeepsStatus(msg, n) ==
  [ errorMessage |-> "Both enhancement and fallback failed: " \o msg,
    retryCount |-> n ]

\* lines 306-322
EnhFailedUpdate(msg, n) ==
  [ status |-> "failed",
    errorMessage |-> "Both enhancement and fallback failed: " \o msg,
    retryCount |-> n ]

\* lines 302-326: the fallback failed too; the handler throws either way
EnhFailed(c) ==
  /\ chain[c].pc = "eFailed"
  /\ \E ok \in StoreOutcomes :
       /\ UseFault(ok)
       /\ store' = IF ok
                   THEN [store EXCEPT ![chain[c].recordId] =
                     UpdateItem(@, EnhFailedUpdate(chain[c].error, chain[c].enhRetryCount))]
                   ELSE store
       /\ chain' = [chain EXCEPT ![c] =
                      ChainReturn(IF ok THEN Logged(@, "failed") ELSE @, "enhancementThrew")]
  /\ UNCHANGED <<jobs, s3Events, ing, ingested, deliveries, putCount, startCount, response, jobRef, poller>>

(***************************************************************************)
(* Email (delivery) handler.                                               *)
(***************************************************************************)
SesErrors == {"Throttling", "MessageRejected"}

EmailCatch_GivesUpEarly(r, msg) ==
  LET n == r.emailRetryCount + 1
  IN  IF n >= EmailMaxRetries - 1
      THEN [r EXCEPT !.pc = "mFailUpdate", !.emailRetryCount = n, !.error = msg]
      ELSE EmailLoop([r EXCEPT !.emailRetryCount = n, !.error = msg,
                               !.emailWaits = Append(@, WaitTime(n))])

\* lines 220-258: count the failure, then give up, or wait and go back to the
\* test of the loop
EmailCatch(r, msg) ==
  LET n == r.emailRetryCount + 1
  IN  IF n >= EmailMaxRetries
      THEN [r EXCEPT !.pc = "mFailUpdate", !.emailRetryCount = n, !.error = msg]
      ELSE EmailLoop([r EXCEPT !.emailRetryCount = n, !.error = msg,
                               !.emailWaits = Append(@, WaitTime(n))])

\* lines 46-187: format the message and send it; the error caught by the
\* previous iteration is out of scope
EmailSend(c) ==
  /\ chain[c].pc = "mSend"
  /\ \/ chain' = [chain EXCEPT ![c] = [@ EXCEPT !.pc = "mUpdate", !.sends = @ + 1,
                                                !.error = NoText]]
     \/ \E e \in SesErrors :
          chain' = [chain EXCEPT ![c] = EmailCatch([@ EXCEPT !.sends = @ + 1], e)]
  /\ UNCHANGED <<store, jobs, s3Events, ing, storeFaultsLeft, ingested, deliveries, putCount, startCount, response, jobRef, poller>>

DeliveredUpdate == [ status |-> "email_sent", emailSentAt |-> TRUE ]

\* lines 189-218
EmailUpdate(c) ==
  /\ chain[c].pc = "mUpdate"
  /\ \E ok \in StoreOutcomes :
       /\ UseFault(ok)
       /\ IF ok
          THEN /\ store' = [store EXCEPT ![chain[c].recordId] = UpdateItem(@, DeliveredUpdate)]
               /\ chain' = [chain EXCEPT ![c] = ChainReturn(Logged(@, "email_sent"), "delivered")]
          ELSE /\ chain' = [chain EXCEPT ![c] = EmailCatch(@, "StoreError")]
               /\ UNCHANGED store
  /\ UNCHANGED <<jobs, s3Events, ing, ingested, deliveries, putCount, startCount, response, jobRef, poller>>

DeliveryFailedUpdate_ClearsArticle(msg, n) ==
  [ status |-> "failed", errorMessage |-> msg, retryCount |-> n,
    enhancedArticleText |-> NoText ]

DeliveryFailedUpdate(msg, n) ==
  [ status |-> "failed", errorMessage |-> msg, retryCount |-> n ]

\* lines 224-252: mark the record failed (an error of the update is
\* swallowed) and rethrow
EmailFailUpdate(c) ==
  /\ chain[c].pc = "mFailUpdate"
  /\ \E ok \in StoreOutcomes :
       /\ UseFault(ok)
       /\ store' = IF ok
                   THEN [store EXCEPT ![chain[c].recordId] =
                     UpdateItem(@, DeliveryFailedUpdate(chain[c].error, chain[c].emailRetryCount))]
                   ELSE store
       /\ chain' = [chain EXCEPT ![c] =
                      ChainReturn(IF ok THEN Logged(@, "failed") ELSE @, "deliveryThrew")]
  /\ UNCHANGED <<jobs, s3Events, ing, ingested, deliveries, putCount, startCount, response, jobRef, poller>>

(***************************************************************************)
(* Status handler (GET /status/{recordId}).                                *)
(***************************************************************************)
NoResponse ==
  [ statusCode |-> 0, recordId |-> <<>>, status |-> NoText, progress |-> 0,
    errorMessage |-> NoText ]

\* lines 62-97: the switch on status; progress in hundredths
Progress_TranscribedEarly(status) ==
  CASE status = "uploaded" -> 15
    [] status = "transcribing" -> 60
    [] status = "transcription_completed" -> 40
    [] status = "enhancing_article" -> 80
    [] status = "article_enhanced" -> 90
    [] status = "email_sent" -> 100
    [] status = "failed" -> 0
    [] OTHER -> 0

Progress(status) ==
  CASE status = "uploaded" -> 15
    [] status = "transcribing" -> 40
    [] status = "transcription_completed" -> 60
    [] status = "enhancing_article" -> 80
    [] status = "article_enhanced" -> 90
    [] status = "email_sent" -> 100
    [] status = "failed" -> 0
    [] OTHER -> 0

StatusResponse_AbsentAsFailed(id, item) ==
  [ statusCode |-> 200, recordId |-> id,
    status |-> IF item.exists /\ item.status # NoText THEN item.status ELSE "failed",
    progress |-> 0, errorMessage |-> item.errorMessage ]

\* lines 43-118: 404 without an item, else 200 with the item's fields;
\* recordId of a 404 is the id asked for (the body carries only the error)
StatusResponse(id, item) ==
  IF ~item.exists
  THEN [NoResponse EXCEPT !.statusCode = 404, !.recordId = id]
  ELSE LET status == IF item.status = NoText THEN "unknown" ELSE item.status
       IN  [ statusCode |-> 200, recordId |-> id, status |-> status,
             progress |-> Progress(status), errorMessage |-> item.errorMessage ]

\* the ids a client may ask for; <<>> is a request without the path parameter
QueryIds == Ids \cup {<<>>}

\* lines 21-128: one request; an error of the read gives 500
StatusQuery(id) ==
  /\ IF id = <<>>
     THEN /\ response' = [NoResponse EXCEPT !.statusCode = 400]
          /\ UNCHANGED storeFaultsLeft
     ELSE \E ok \in StoreOutcomes :
            /\ UseFault(ok)
            /\ response' = IF ok THEN StatusResponse(id, store[id])
                           ELSE [NoResponse EXCEPT !.statusCode = 500, !.recordId = id]
  /\ UNCHANGED <<store, jobs, s3Events, ing, chain, ingested, deliveries, putCount, startCount,
                 jobRef, poller>>

(***************************************************************************)
(* The job reference: the name the upload handler gives a transcription    *)
(* job, and the record id the transcription handler recovers from it.      *)
(***************************************************************************)
NoJobRef == [state |-> "none", id |-> <<>>, name |-> <<>>, recovered |-> <<>>]

\* the characters of a record id: a file name without '/' and '.'
IdChars == {"r", "x", "-"}

\* the non-empty record ids of at most MaxIdLen characters
RecordIds == UNION { [1..n -> IdChars] : n \in 1..MaxIdLen }

\* Date.now(): a decimal number, here of one digit
Timestamps == 1..Len(Digits)

\* the upload handler names the job of a record
BuildJobRef(recordId, ts) ==
  /\ jobRef.state # "built"
  /\ jobRef' = [state |-> "built", id |-> recordId,
                name |-> TranscribeJobName(recordId, ts), recovered |-> <<>>]
  /\ UNCHANGED <<store, jobs, s3Events, ing, chain, storeFaultsLeft, ingested, deliveries,
                 putCount, startCount, response, poller>>

\* the transcription handler reads the job name of a completion event
ParseJobRef ==
  /\ jobRef.state = "built"
  /\ jobRef' = IF Len(JobNameParts(jobRef.name)) < 4
               THEN [jobRef EXCEPT !.state = "rejected"]
               ELSE [jobRef EXCEPT !.state = "parsed",
                                   !.recovered = JobRecordId(jobRef.name)]
  /\ UNCHANGED <<store, jobs, s3Events, ing, chain, storeFaultsLeft, ingested, deliveries,
                 putCount, startCount, response, poller>>

(***************************************************************************)
(* The status poller of the client (StatusService).  A periodic timer      *)
(* starts one status request per tick; a second timer ends the polling     *)
(* after two minutes.  MaxPolls bounds the ticks of one polling (24 in the *)
(* code: two minutes of five-second ticks), MaxInFlight the requests that  *)
(* have not answered yet.                                                  *)
(***************************************************************************)
PollMaxRetries == 5

\* failedInRow is a history field: the failed requests since the last
\* request that succeeded
IdlePoller ==
  [started |-> FALSE, active |-> FALSE, closed |-> FALSE, deadlineFired |-> FALSE,
   retryCount |-> 0, polls |-> 0, inflight |-> 0, failedInRow |-> 0,
   last |-> "none", lastError |-> NoText, errors |-> {}]

\* what a status request may meet: a 200 response with a status, a 404, a
\* 400, a 5xx (rejected by validateStatus), no connection
PollOutcomes ==
  {"transcribing", "email_sent", "failed", "notFound", "badRequest", "serverError",
   "networkError"}

FailedOutcomes == {"badRequest", "serverError", "networkError"}

\* getStatus: every failure is caught and answered with a default status
GetStatus(outcome) ==
  CASE outcome \in FailedOutcomes ->
         [threw |-> FALSE, status |-> "uploaded", errorMessage |-> "Failed to check status"]
    [] outcome = "notFound" ->
         [threw |-> FALSE, status |-> "uploaded", errorMessage |-> NoText]
    [] OTHER ->
         [threw |-> FALSE, status |-> outcome, errorMessage |-> NoText]

\* pollStatus: starts the periodic timer and arms the two-minute timer
PollStart ==
  /\ ~poller.started
  /\ poller' = [poller EXCEPT !.started = TRUE, !.active = TRUE, !.retryCount = 0]
  /\ UNCHANGED <<store, jobs, s3Events, ing, chain, storeFaultsLeft, ingested, deliveries,
                 putCount, startCount, response, jobRef>>

\* a tick of the periodic timer: the callback starts a status request
PollTick ==
  /\ poller.active
  /\ poller.polls < MaxPolls
  /\ poller.inflight < MaxInFlight
  /\ poller' = [poller EXCEPT !.polls = @ + 1, !.inflight = @ + 1]
  /\ UNCHANGED <<store, jobs, s3Events, ing, chain, storeFaultsLeft, ingested, deliveries,
                 putCount, startCount, response, jobRef>>

\* the catch block of the timer callback
PollCatch(p) ==
  LET n == p.retryCount + 1
  IN  IF n >= PollMaxRetries
      THEN [p EXCEPT !.retryCount = n, !.active = FALSE,
                     !.errors = IF p.closed THEN @ ELSE @ \cup {"Unable to connect to server"},
                     !.closed = TRUE]
      ELSE [p EXCEPT !.retryCount = n]

\* a status request ends and the callback goes on; adding to a closed
\* controller throws
PollResponse(outcome) ==
  /\ poller.inflight > 0
  /\ LET status == GetStatus(outcome)
         p1 == [poller EXCEPT !.inflight = @ - 1,
                              !.failedInRow = IF outcome \in FailedOutcomes THEN @ + 1 ELSE 0]
         done == status.status \in {"email_sent", "failed"}
     IN  poller' = IF status.threw \/ poller.closed
                   THEN PollCatch(p1)
                   ELSE [p1 EXCEPT !.last = status.status,
                                   !.lastError = status.errorMessage,
                                   !.retryCount = 0,
                                   !.active = IF done THEN FALSE ELSE @,
                                   !.closed = done]
  /\ UNCHANGED <<store, jobs, s3Events, ing, chain, storeFaultsLeft, ingested, deliveries,
                 putCount, startCount, response, jobRef>>

\* the two-minute timer fires
PollDeadline ==
  /\ poller.started
  /\ ~poller.deadlineFired
  /\ poller' = IF poller.closed
               THEN [poller EXCEPT !.deadlineFired = TRUE]
               ELSE [poller EXCEPT !.deadlineFired = TRUE, !.active = FALSE,
                                   !.retryCount = 0, !.closed = TRUE,
                                   !.errors = @ \cup {"Backend communication timeout"}]
  /\ UNCHANGED <<store, jobs, s3Events, ing, chain, storeFaultsLeft, ingested, deliveries,
                 putCount, startCount, response, jobRef>>

(***************************************************************************)
(* Specifications.                                                         *)
(***************************************************************************)
InitCommon ==
  /\ store = [id \in Ids |-> AbsentItem]
  /\ jobs = {}
  /\ putCount = [id \in Ids |-> 0]
  /\ startCount = [id \in Ids |-> 0]
  /\ ingested = 0
  /\ deliveries = 0
  /\ response = NoResponse
  /\ jobRef = NoJobRef
  /\ poller = IdlePoller

\* one upload of one audio object, processed by the whole pipeline; the
\* completion event may be delivered more than once; the store is available
Init ==
  /\ InitCommon
  /\ s3Events = { <<KeyA>> }
  /\ ing = [p \in {1} |-> IdleIng]
  /\ chain = [c \in {1} |-> IdleChain]
  /\ storeFaultsLeft = 0

Next ==
  \/ \E p \in IngSlots : IngInvoke(p)
  \/ \E p \in IngSlots : IngGet(p)
  \/ \E p \in IngSlots : IngPut(p)
  \/ \E p \in IngSlots : IngStartJob(p)
  \/ \E p \in IngSlots : IngUpdate(p)
  \/ \E p \in IngSlots : IngCatch(p)
  \/ \E p \in IngSlots : IngReinvoke(p)
  \/ JobFinish
  \/ \E c \in ChainSlots : TrInvoke(c)
  \/ \E c \in ChainSlots : TrFailUpdate(c)
  \/ \E c \in ChainSlots : TrRetrieve(c)
  \/ \E c \in ChainSlots : TrGetItem(c)
  \/ \E c \in ChainSlots : TrUpdate(c)
  \/ \E c \in ChainSlots : TrInvokeEnhancement(c)
  \/ \E c \in ChainSlots : TrCatch(c)
  \/ \E c \in ChainSlots : TrReinvoke(c)
  \/ \E c \in ChainSlots : EnhStatus(c)
  \/ \E c \in ChainSlots : EnhBedrock(c)
  \/ \E c \in ChainSlots : EnhUpdate(c)
  \/ \E c \in ChainSlots : EnhInvokeEmail(c)
  \/ \E c \in ChainSlots : EnhFallbackUpdate(c)
  \/ \E c \in ChainSlots : EnhFallbackInvoke(c)
  \/ \E c \in ChainSlots : EnhFailed(c)
  \/ \E c \in ChainSlots : EmailSend(c)
  \/ \E c \in ChainSlots : EmailUpdate(c)
  \/ \E c \in ChainSlots : EmailFailUpdate(c)

Spec == Init /\ [][Next]_vars

\* the upload handler alone, under duplicated, concurrent and multi-record
\* events, with a store that may throw
InitIngest ==
  /\ InitCommon
  /\ s3Events = Events
  /\ ing = [p \in {1, 2} |-> IdleIng]
  /\ chain = [c \in {} |-> IdleChain]
  /\ storeFaultsLeft = MaxStoreFaults

NextIngest ==
  \/ \E p \in IngSlots : IngInvoke(p)
  \/ \E p \in IngSlots : IngGet(p)
  \/ \E p \in IngSlots : IngPut(p)
  \/ \E p \in IngSlots : IngStartJob(p)
  \/ \E p \in IngSlots : IngUpdate(p)
  \/ \E p \in IngSlots : IngCatch(p)
  \/ \E p \in IngSlots : IngReinvoke(p)

SpecIngest == InitIngest /\ [][NextIngest]_vars

\* the whole pipeline with a store that may throw
InitStoreFaults ==
  /\ InitCommon
  /\ s3Events = { <<KeyA>> }
  /\ ing = [p \in {1} |-> IdleIng]
  /\ chain = [c \in {1} |-> IdleChain]
  /\ storeFaultsLeft = MaxStoreFaults

SpecStoreFaults == InitStoreFaults /\ [][Next]_vars

\* the handlers of a completion event with a store that may throw, from the
\* state the upload handler leaves behind: the record of a/r.m in status
\* transcribing, its job running
InitChainFaults ==
  /\ store = [id \in Ids |->
                IF id = RecordIdOf(DecodeKey(KeyA))
                THEN UpdateItem(NewItem(DecodeKey(KeyA)),
                                TranscribingUpdate(TranscribeJobName(id, 1)))
                ELSE AbsentItem]
  /\ jobs = { [name |-> TranscribeJobName(RecordIdOf(DecodeKey(KeyA)), 1),
               status |-> "IN_PROGRESS", artifact |-> "none",
               outputKey |-> ArtifactKey(RecordIdOf(DecodeKey(KeyA)))] }
  /\ putCount = [id \in Ids |-> IF id = RecordIdOf(DecodeKey(KeyA)) THEN 1 ELSE 0]
  /\ startCount = [id \in Ids |-> IF id = RecordIdOf(DecodeKey(KeyA)) THEN 1 ELSE 0]
  /\ ingested = 1
  /\ deliveries = 0
  /\ response = NoResponse
  /\ jobRef = NoJobRef
  /\ poller = IdlePoller
  /\ s3Events = { <<KeyA>> }
  /\ ing = <<>>
  /\ chain = [c \in {1} |-> IdleChain]
  /\ storeFaultsLeft = MaxStoreFaults

NextChainFaults ==
  \/ JobFinish
  \/ \E c \in ChainSlots : TrInvoke(c)
  \/ \E c \in ChainSlots : TrFailUpdate(c)
  \/ \E c \in ChainSlots : TrRetrieve(c)
  \/ \E c \in ChainSlots : TrGetItem(c)
  \/ \E c \in ChainSlots : TrUpdate(c)
  \/ \E c \in ChainSlots : TrInvokeEnhancement(c)
  \/ \E c \in ChainSlots : TrCatch(c)
  \/ \E c \in ChainSlots : TrReinvoke(c)
  \/ \E c \in ChainSlots : EnhStatus(c)
  \/ \E c \in ChainSlots : EnhBedrock(c)
  \/ \E c \in ChainSlots : EnhUpdate(c)
  \/ \E c \in ChainSlots : EnhInvokeEmail(c)
  \/ \E c \in ChainSlots : EnhFallbackUpdate(c)
  \/ \E c \in ChainSlots : EnhFallbackInvoke(c)
  \/ \E c \in ChainSlots : EnhFailed(c)
  \/ \E c \in ChainSlots : EmailSend(c)
  \/ \E c \in ChainSlots : EmailUpdate(c)
  \/ \E c \in ChainSlots : EmailFailUpdate(c)

SpecChainFaults == InitChainFaults /\ [][NextChainFaults]_vars

\* A handler that has sent the message goes on to its next statement, the
\* update of the record: the host runs an invocation to its end.
SpecLive == Spec /\ WF_vars(\E c \in ChainSlots : EmailUpdate(c))

\* the status values the handlers write
WrittenStatuses ==
  {"uploaded", "transcribing", "transcription_completed", "enhancing_article",
   "article_enhanced", "email_sent", "failed"}

\* the items a status request may find: none, one with a status a handler
\* wrote, one with a status no handler writes, one without a status
StatusItems ==
  {AbsentItem}
    \cup { [AbsentItem EXCEPT !.exists = TRUE, !.status = st,
                              !.errorMessage = IF st = "failed" THEN "StartJobError"
                                               ELSE NoText,
                              !.emailSentAt = (st = "email_sent")] :
             st \in WrittenStatuses \cup {"archived", NoText} }

\* status requests against a table in any of those conditions
InitStatus ==
  /\ store \in [Ids -> StatusItems]
  /\ jobs = {}
  /\ putCount = [id \in Ids |-> 0]
  /\ startCount = [id \in Ids |-> 0]
  /\ ingested = 0
  /\ deliveries = 0
  /\ response = NoResponse
  /\ jobRef = NoJobRef
  /\ poller = IdlePoller
  /\ s3Events = {}
  /\ ing = <<>>
  /\ chain = <<>>
  /\ storeFaultsLeft = MaxStoreFaults

NextStatus ==
  \E id \in QueryIds : StatusQuery(id)

SpecStatus == InitStatus /\ [][NextStatus]_vars

\* the job names of every record id of the bound, built and parsed
InitJobName ==
  /\ InitCommon
  /\ s3Events = {}
  /\ ing = <<>>
  /\ chain = <<>>
  /\ storeFaultsLeft = 0

NextJobName ==
  \/ \E recordId \in RecordIds, ts \in Timestamps : BuildJobRef(recordId, ts)
  \/ ParseJobRef

SpecJobName == InitJobName /\ [][NextJobName]_vars

\* one polling of the client, against a backend that answers in any way
NextPoller ==
  \/ PollStart
  \/ PollTick
  \/ \E outcome \in PollOutcomes : PollResponse(outcome)
  \/ PollDeadline

SpecPoller == InitJobName /\ [][NextPoller]_vars

(***************************************************************************)
(* Properties.                                                             *)
(***************************************************************************)
IdR == RecordIdOf(DecodeKey(KeyA))

Terminal == {"email_sent", "failed"}

StatusRank(status) ==
  CASE status = "uploaded" -> 1
    [] status = "transcribing" -> 2
    [] status = "transcription_completed" -> 3
    [] status = "enhancing_article" -> 4
    [] status = "article_enhanced" -> 5
    [] status \in Terminal -> 6
    [] OTHER -> 0

\* a <= b in the order uploaded < transcribing < transcription_completed <
\* enhancing_article < article_enhanced < {email_sent, failed}
StatusLeq(a, b) == a = b \/ StatusRank(a) < StatusRank(b)

\* C1: at most one record is ever inserted per record id, and an invocation
\* of the upload handler that found the record of an object already present
\* (by the point read or by the failed conditional insert) writes nothing to
\* that record.
C1_OneRecordAndDuplicateIsNoOp ==
  /\ [](\A id \in Ids : putCount[id] <= 1)
  /\ [][\A p \in IngSlots : \A id \in Ids :
          (id \in ing[p].found /\ ing'[p] # ing[p]) => store'[id] = store[id]]_vars

\* C2: StartTranscriptionJob is called at most once per record id, and only
\* after a conditional insert for that id succeeded, whatever duplicate,
\* concurrent or re-invoked upload events there are.
C2_AtMostOneJobStart ==
  \A id \in Ids : startCount[id] <= 1 /\ startCount[id] <= putCount[id]

\* C2 witness: the job of r was started once although one invocation was
\* re-invoked by the host and another found r already present.
C2_Witness ==
  /\ startCount[IdR] = 1
  /\ \E p, q \in IngSlots :
       /\ p # q
       /\ ing[p].pc = "done" /\ IdR \in ing[p].found /\ ing[p].attempt = 1
       /\ ing[q].pc = "done" /\ IdR \in ing[q].found /\ ing[q].attempt > 1

\* C3: no write moves the status of a record backwards in the order
\* uploaded < transcribing < transcription_completed < enhancing_article <
\* article_enhanced < {email_sent, failed}.
C3_StatusNeverRegresses ==
  [][\A id \in Ids :
       store[id].exists => StatusLeq(store[id].status, store'[id].status)]_vars

\* C4: once the status of a record is email_sent or failed, no later step
\* changes it.
C4_TerminalStatusIsFinal ==
  [][\A id \in Ids :
       store[id].status \in Terminal => store'[id].status = store[id].status]_vars

\* C5: when the enhancement handler has taken the fallback, the record has
\* status article_enhanced, its enhancedArticleText equals the transcript and
\* its errorMessage is set; and the email handler is invoked with the
\* transcript as content.
C5_FallbackStoresTranscript ==
  \A c \in ChainSlots :
    /\ chain[c].pc = "eFallbackInvoke" =>
         /\ store[chain[c].recordId].status = "article_enhanced"
         /\ store[chain[c].recordId].enhancedArticleText = chain[c].transcriptionText
         /\ store[chain[c].recordId].errorMessage # NoText
    /\ (chain[c].fallback /\ chain[c].pc \in {"mSend", "mUpdate", "mFailUpdate"}) =>
         chain[c].content = chain[c].transcriptionText

\* C6: the completion timestamp of a record is set if and only if its status
\* is email_sent or failed.  (emailSentAt is the only completion timestamp a
\* handler writes.)
C6_CompletedAtIffTerminal ==
  \A id \in Ids :
    store[id].exists => (store[id].emailSentAt <=> store[id].status \in Terminal)

\* C7: when the email handler gives up, every send attempt of the invocation
\* having failed, the step leaves the record with status failed, errorMessage
\* the last error and retryCount the number of send attempts made, which is
\* the retry bound; and the call chain ends without invoking anything.
C7_DeliveryExhaustedMarksFailed ==
  [][\A c \in ChainSlots :
       EmailFailUpdate(c) =>
         /\ store'[chain[c].recordId].status = "failed"
         /\ store'[chain[c].recordId].errorMessage = chain[c].error
         /\ chain[c].error \in SesErrors
         /\ store'[chain[c].recordId].retryCount = chain[c].sends
         /\ chain[c].sends = EmailMaxRetries
         /\ chain'[c].pc = "done"]_vars

C7_Witness ==
  \E c \in ChainSlots :
    /\ chain[c].pc = "done" /\ chain[c].result = "deliveryThrew"
    /\ store[chain[c].recordId].status = "failed"
    /\ store[chain[c].recordId].retryCount = EmailMaxRetries
    /\ store[chain[c].recordId].errorMessage \in SesErrors

\* C8: no step of the email handler, on success or on failure, changes the
\* transcriptionText or the enhancedArticleText of any record.
C8_DeliveryKeepsTexts ==
  [][\A c \in ChainSlots :
       (EmailSend(c) \/ EmailUpdate(c) \/ EmailFailUpdate(c)) =>
         \A id \in Ids :
           /\ store'[id].transcriptionText = store[id].transcriptionText
           /\ store'[id].enhancedArticleText = store[id].enhancedArticleText]_vars

\* C8 witness: a delivery failed terminally on a record that carries both texts
C8_Witness ==
  \E c \in ChainSlots :
    /\ chain[c].pc = "done" /\ chain[c].result = "deliveryThrew"
    /\ store[chain[c].recordId].status = "failed"
    /\ store[chain[c].recordId].transcriptionText = "hello world"
    /\ store[chain[c].recordId].enhancedArticleText \in Articles

\* C9: once transcriptionText or enhancedArticleText of a record is set, no
\* later step changes its value.
C9_TextsImmutableOnceSet ==
  [][\A id \in Ids :
       /\ store[id].transcriptionText # NoText =>
            store'[id].transcriptionText = store[id].transcriptionText
       /\ store[id].enhancedArticleText # NoText =>
            store'[id].enhancedArticleText = store[id].enhancedArticleText]_vars

HappyPathLog ==
  <<"transcription_completed", "enhancing_article", "article_enhanced", "email_sent">>

StatusOrder ==
  <<"uploaded", "transcribing", "transcription_completed", "enhancing_article",
    "article_enhanced", "email_sent">>

\* C11: the progress of a 200 response is the value the switch gives for the
\* status of the response and nothing else, lies in 0..100 (hundredths), is
\* non-decreasing along uploaded, transcribing, transcription_completed,
\* enhancing_article, article_enhanced, email_sent, is 100 exactly for
\* email_sent, and is 0 for failed and for a status no handler writes.
C11_ProgressOfStatus ==
  /\ \A i, j \in DOMAIN StatusOrder :
       i <= j => Progress(StatusOrder[i]) <= Progress(StatusOrder[j])
  /\ response.statusCode = 200 =>
       /\ response.progress = Progress(response.status)
       /\ response.progress \in 0..100
       /\ response.progress = 100 <=> response.status = "email_sent"
       /\ response.status \notin (WrittenStatuses \ {"failed"}) => response.progress = 0

\* C11 witness: a client was answered about a delivered record while the
\* other record has a status no handler writes
C11_Witness ==
  /\ response.statusCode = 200
  /\ response.status = "email_sent"
  /\ response.progress = 100
  /\ \E id \in Ids : store[id].status = "archived"

\* C12 (as stated): a request for an id without a record is answered 404,
\* never with status failed and never with a server error; a request for a
\* failed record is answered 200 with status failed.
C12_AbsentIsNotFound ==
  [][\A id \in Ids :
       StatusQuery(id) =>
         /\ ~store[id].exists =>
              /\ response'.statusCode = 404
              /\ response'.status # "failed"
         /\ (store[id].exists /\ store[id].status = "failed") =>
              /\ response'.statusCode = 200
              /\ response'.status = "failed"]_vars

\* C12 (amended): the same whenever the read of the record succeeds; a
\* request whose read throws is answered 500, whether or not a record exists.
C12_AbsentIsNotFoundWhenRead ==
  [][\A id \in Ids :
       StatusQuery(id) =>
         IF storeFaultsLeft' = storeFaultsLeft
         THEN /\ ~store[id].exists =>
                   /\ response'.statusCode = 404
                   /\ response'.status # "failed"
              /\ (store[id].exists /\ store[id].status = "failed") =>
                   /\ response'.statusCode = 200
                   /\ response'.status = "failed"
              /\ response'.statusCode # 500
         ELSE response'.statusCode = 500]_vars

\* C12 witness: a request for an id without a record was answered 404 while
\* the other record is failed
C12_Witness ==
  /\ response.statusCode = 404
  /\ response.recordId \in Ids
  /\ ~store[response.recordId].exists
  /\ \E id \in Ids : store[id].exists /\ store[id].status = "failed"

\* C13: one invocation of the article-enhancement handler calls the model at
\* most 3 times, the bound of the email handler; before the call that follows
\* k failed attempts it has waited 2^1, .., 2^k seconds; and it calls the
\* model no more once a call has succeeded or the fallback has been taken.
C13_EnhancementCallsBounded ==
  /\ [](/\ EnhMaxRetries = EmailMaxRetries
        /\ \A c \in ChainSlots : chain[c].calls <= EnhMaxRetries)
  /\ [][\A c \in ChainSlots :
          EnhBedrock(c) =>
            /\ Len(chain[c].waits) = chain[c].enhRetryCount
            /\ \A k \in DOMAIN chain[c].waits : chain[c].waits[k] = (2 ^ k) * 1000
            /\ ~chain[c].fallback
            /\ ~chain[c].succeeded]_vars

\* the error names the retry policy counts as rate limiting, transient
\* unavailability and internal transient failure
RetryableClasses ==
  {"ThrottlingException", "TooManyRequestsException",
   "ServiceUnavailableException", "InternalServerException"}

EnhFallbackPcs == {"eFallback", "eFallbackInvoke", "eFailed"}

\* C14: when the article-enhancement handler catches an error, it goes round
\* the loop again only if the error is of a retryable class; an error of any
\* other class takes it to the fallback in the same step, without a wait,
\* and from the fallback it never returns to the loop or to the model.
C14_OnlyRetryableRetried ==
  [][\A c \in ChainSlots :
       /\ chain'[c].enhRetryCount = chain[c].enhRetryCount + 1 =>
            /\ chain'[c].pc \in {"eStatus", "eFallback"}
            /\ chain'[c].pc = "eStatus" =>
                 /\ chain'[c].error \in RetryableClasses
                 /\ Len(chain'[c].waits) = Len(chain[c].waits) + 1
            /\ chain'[c].error \notin RetryableClasses =>
                 /\ chain'[c].pc = "eFallback"
                 /\ chain'[c].waits = chain[c].waits
       /\ chain[c].pc \in EnhFallbackPcs =>
            /\ chain'[c].pc \notin {"eStatus", "eBedrock", "eUpdate", "eInvoke"}
            /\ chain'[c].calls <= chain[c].calls
            /\ chain'[c].waits \in {chain[c].waits, <<>>}]_vars

\* C14 witness: the first call of the model failed with an error that is not
\* retryable and the handler is at the fallback, having waited for nothing
C14_Witness ==
  \E c \in ChainSlots :
    /\ chain[c].pc = "eFallback"
    /\ chain[c].error = "AccessDeniedException"
    /\ chain[c].enhRetryCount = 1
    /\ chain[c].calls = 1
    /\ chain[c].waits = <<>>

\* transport errors that a later attempt cannot cure
PermanentSesErrors == {"MessageRejected"}

\* C15: when the first send of an invocation of the email handler fails with
\* a permanent transport error, the handler goes to mark the record failed in
\* the same step, having made one send attempt and without a wait.
C15_PermanentSendErrorNotRetried ==
  [][\A c \in ChainSlots :
       (/\ EmailSend(c)
        /\ chain[c].sends = 0
        /\ chain'[c].emailRetryCount = 1
        /\ chain'[c].error \in PermanentSesErrors) =>
          /\ chain'[c].pc = "mFailUpdate"
          /\ chain'[c].sends = 1
          /\ chain'[c].emailWaits = <<>>]_vars

\* the one job start made for id failed: no job of id exists
StartFailed(id) ==
  /\ startCount[id] = 1
  /\ ~\E j \in jobs : JobRecordId(j.name) = id

\* C16: a record whose job start failed is failed with the error of the start
\* as errorMessage once the invocation has left its catch block (no store
\* call having thrown), and StartTranscriptionJob is called at most once for
\* the id, re-invocations by the host included.
C16_StartFailureMarksFailedOnce ==
  \A id \in Ids :
    /\ startCount[id] <= 1
    /\ (/\ StartFailed(id)
        /\ storeFaultsLeft = MaxStoreFaults
        /\ \A p \in IngSlots : ing[p].pc # "catch") =>
         /\ store[id].status = "failed"
         /\ store[id].errorMessage = "StartJobError"

\* C16 witness: the start for r failed, the host re-invoked the handler for
\* the event and the re-invocation found r present and ended
C16_Witness ==
  /\ StartFailed(IdR)
  /\ storeFaultsLeft = MaxStoreFaults
  /\ store[IdR].status = "failed"
  /\ \E p \in IngSlots :
       /\ ing[p].pc = "done"
       /\ ing[p].attempt > 1
       /\ IdR \in ing[p].found

\* C17: the step of the transcription handler on a FAILED job sets status
\* failed and errorMessage 'Transcription job failed', leaves the transcript
\* of the record as it was and ends the invocation; and an invocation for a
\* FAILED job never retrieves a transcript nor reaches the enhancement.
C17_JobFailedStops ==
  /\ [][\A c \in ChainSlots :
          TrFailUpdate(c) =>
            /\ store'[chain[c].recordId].status = "failed"
            /\ store'[chain[c].recordId].errorMessage = "Transcription job failed"
            /\ store'[chain[c].recordId].transcriptionText =
                 store[chain[c].recordId].transcriptionText
            /\ chain'[c].pc = "done"
            /\ chain'[c].result = "jobFailed"]_vars
  /\ [](\A c \in ChainSlots :
          (chain[c].job # <<>> /\ JobOf(chain[c].job).status = "FAILED") =>
            /\ chain[c].pc \in {"tFailUpdate", "tCatch", "thrown", "done"}
            /\ chain[c].transcriptionText = NoText
            /\ chain[c].calls = 0)

\* C17 witness: an invocation for a FAILED job has ended and failed is the
\* only status it wrote
C17_Witness ==
  \E c \in ChainSlots :
    /\ chain[c].pc = "done" /\ chain[c].result = "jobFailed"
    /\ chain[c].log = <<"failed">>
    /\ store[chain[c].recordId].status = "failed"
    /\ store[chain[c].recordId].errorMessage = "Transcription job failed"
    /\ store[chain[c].recordId].transcriptionText = NoText

\* the positions of the call chain at or past the write of the transcript
PastRetrievePcs ==
  {"tUpdate", "tInvoke", "eStatus", "eBedrock", "eUpdate", "eInvoke",
   "eFallback", "eFallbackInvoke", "eFailed", "mSend", "mUpdate", "mFailUpdate"}

\* C18: when the retrieval of the transcript of a COMPLETED job has failed,
\* the catch block sets status failed and errorMessage the error of the
\* retrieval and leaves the transcript of the record as it was; and no
\* invocation for that event, re-invocations by the host included, writes a
\* transcript or reaches the enhancement.
C18_RetrievalFailureStops ==
  /\ [][\A c \in ChainSlots :
          (TrCatch(c) /\ chain[c].retrieveFailed) =>
            /\ store'[chain[c].recordId].status = "failed"
            /\ store'[chain[c].recordId].errorMessage = chain[c].error
            /\ store'[chain[c].recordId].transcriptionText =
                 store[chain[c].recordId].transcriptionText]_vars
  /\ [](\A c \in ChainSlots :
          chain[c].retrieveFailed => chain[c].pc \notin PastRetrievePcs)

\* C19: an invocation of the transcription handler that comes to its update
\* when the record is already past transcription_completed (the event was
\* delivered again) leaves the status of the record as it is and ends there:
\* it does not go on to invoke the enhancement, and with it the model and
\* the send.
C19_RedeliveryIsNoOp ==
  [][\A c \in ChainSlots :
       (/\ TrUpdate(c)
        /\ store[chain[c].recordId].status
             \in {"enhancing_article", "article_enhanced", "email_sent"}) =>
          /\ store'[chain[c].recordId].status = store[chain[c].recordId].status
          /\ chain'[c].pc \notin PastRetrievePcs]_vars

\* C20: when, on the fallback path, the invocation of the email handler
\* cannot be issued, the handler goes to its second catch block, and the
\* step of that block leaves the record with status failed and an
\* errorMessage naming the error, and ends the invocation by throwing.
C20_FallbackInvokeFailureMarksFailed ==
  [][\A c \in ChainSlots :
       /\ (EnhFallbackInvoke(c) /\ chain'[c].pc # "mSend") =>
            /\ chain'[c].pc = "eFailed"
            /\ chain'[c].error \in InvokeErrors
       /\ (EnhFailed(c) /\ chain[c].fallback) =>
            /\ store'[chain[c].recordId].status = "failed"
            /\ store'[chain[c].recordId].errorMessage =
                 "Both enhancement and fallback failed: " \o chain[c].error
            /\ chain[c].error \in InvokeErrors
            /\ chain'[c].pc = "done"
            /\ chain'[c].result = "enhancementThrew"]_vars

\* C20 witness: the fallback's invocation of the email handler could not be
\* issued and the enhancement handler has thrown
C20_Witness ==
  \E c \in ChainSlots :
    /\ chain[c].pc = "done" /\ chain[c].result = "enhancementThrew"
    /\ store[chain[c].recordId].status = "failed"
    /\ store[chain[c].recordId].errorMessage =
         "Both enhancement and fallback failed: ResourceNotFoundException"


\* C21: the upload handler's write of status transcribing is never applied
\* after a write of the transcription handler to the same record: when the
\* upload handler writes it, the record still has the status uploaded that
\* the handler's own insert gave it.
C21_TranscribingNotAfterCompletion ==
  [][\A p \in IngSlots :
       (ing[p].pc = "update" /\ ing'[p] # ing[p] /\ store'[CurId(p)] # store[CurId(p)])
         => store[CurId(p)].status = "uploaded"]_vars

\* C22: a store write that fails inside the enhancement or the email handler
\* is passed on to the caller and not handled by the stage's retry policy: it
\* consumes no retry attempt, is followed by no further model call or send,
\* and does not lead to the fallback.
C22_StoreFailureNotRetried ==
  [][\A c \in ChainSlots :
       ( /\ chain[c].pc \in {"eStatus", "eUpdate", "mUpdate"}
         /\ chain'[c] # chain[c]
         /\ storeFaultsLeft' < storeFaultsLeft )
         => /\ chain'[c].enhRetryCount = chain[c].enhRetryCount
            /\ chain'[c].emailRetryCount = chain[c].emailRetryCount
            /\ chain'[c].pc \notin {"eStatus", "eBedrock", "eFallback", "mSend"}]_vars

\* C23: there is one record per source key: when an invocation of the upload
\* handler has handled its event without an error, the store holds, for every
\* key of the event, a record whose audioFileKey is that key (stated for the
\* runs in which no store call has failed).
C23_RecordPerSourceKey ==
  \A p \in IngSlots :
    (ing[p].pc = "done" /\ ing[p].error = NoText /\ storeFaultsLeft = MaxStoreFaults) =>
      \A k \in 1..Len(ing[p].event) :
        LET objectKey == DecodeKey(ing[p].event[k])
        IN  RecordIdOf(objectKey) # <<>> =>
              \E id \in Ids : store[id].exists /\ store[id].audioFileKey = objectKey

\* C27: records are created by the upload handler's conditional insert only;
\* no status or error update of any handler creates one, so every record of
\* the store has its audioFileKey and its createdAt.
C27_RecordsOnlyByInsert ==
  \A id \in Ids :
    store[id].exists => (store[id].audioFileKey # <<>> /\ store[id].createdAt)

\* C28: when one record of a multi-record event fails, the records of the
\* event that the same invocation has already moved to transcribing are not
\* marked failed by the error handling.
C28_OtherRecordsNotMarkedFailed ==
  [][\A p \in IngSlots :
       ( /\ ing[p].pc = "catch"
         /\ ing'[p] # ing[p]
         /\ CurId(p) # <<>>
         /\ store[CurId(p)].status = "transcribing"
         /\ store[CurId(p)].audioFileKey = CurKey(p) )
         => store'[CurId(p)] = store[CurId(p)]]_vars

\* C25: the retry loops of the enhancement and the email handler are left
\* from inside only, by the return of the try block or by the return or throw
\* of the catch block: the retry counts stay within the limits, and no
\* invocation falls out of a loop to the response of the handler's last
\* statement ("Unexpected error").
C25_TrailingReturnUnreachable ==
  \A c \in ChainSlots :
    /\ chain[c].enhRetryCount <= EnhMaxRetries
    /\ chain[c].emailRetryCount <= EmailMaxRetries
    /\ chain[c].result \notin {"enhancementUnexpected", "deliveryUnexpected"}

\* the enhancement handler has failed as often as the loop allows and leaves
\* the loop from the catch block
C25_Witness ==
  \E c \in ChainSlots :
    /\ chain[c].pc = "eFallback"
    /\ chain[c].enhRetryCount = EnhMaxRetries
    /\ chain[c].error \in RetryableClasses

IsArtifactKey(objectKey) == \E id \in Ids : objectKey = ArtifactKey(id)

C29_NoSendAfterSuccessfulSend ==
  [][\A c \in ChainSlots :
       (chain[c].pc = "mUpdate" /\ chain[c].sends >= 1) => chain'[c].pc # "mSend"]_vars

\* C24: the record id that the transcription handler recovers from a job
\* name is the record id the upload handler built the name from, for every
\* non-empty id, ids that contain '-' included; no such name is rejected.
C24_JobNameRoundTrip ==
  jobRef.state \in {"parsed", "rejected"} =>
    (jobRef.state = "parsed" /\ jobRef.recovered = jobRef.id)

\* the name of an id with '-' inside and at its end has been parsed
C24_Witness ==
  /\ jobRef.state = "parsed"
  /\ jobRef.id = <<"r", "-", "-">>
  /\ jobRef.recovered = jobRef.id

\* C26: the status poller goes on polling after a failed request while fewer
\* than five requests in a row have failed; when five in a row have failed it
\* has cancelled its timer, emitted 'Unable to connect to server' and closed
\* the stream; its retry count is the number of requests that have failed
\* since the last one that succeeded.
C26_PollerGivesUpAfterFiveFailures ==
  /\ (poller.failedInRow >= PollMaxRetries) =>
       ( /\ ~poller.active
         /\ poller.closed
         /\ "Unable to connect to server" \in poller.errors )
  /\ (poller.active /\ poller.inflight = 0) => poller.retryCount = poller.failedInRow
=============================================================================
